---- MODULE Spec2Model ----
(***************************************************************************)
(* Model of the Proxmox QEMU resource of terraform-provider-proxmox:       *)
(*   - the device-set reconciliation of qemu_structure.go and              *)
(*     resource_vm_qemu.go (expandDevices / DevicesSetToMap,               *)
(*     updateDevicesDefaults, flattenDevices, UpdateDevicesSet,            *)
(*     flattenVmQemu / resourceVmQemuRead);                                *)
(*   - the lifecycle orchestration of resourceVmQemuCreate and             *)
(*     resourceVmQemuUpdate, with prepareDiskSize and diskSizeGB;          *)
(*   - the DiffSuppressFunc of qemu_os.                                    *)
(*                                                                         *)
(* Go values (interface{}) are pairs <<type, payload>>; a device record    *)
(* (map[string]interface{}) is a function from attribute names to values;  *)
(* pxapi.QemuDevices is a function from slot ids to records.  A schema.Set *)
(* is [m, heap]: m maps a hash code to a reference, heap maps a reference  *)
(* to the record it currently holds (Go maps are references: a record      *)
(* mutated after it was added stays filed under its old hash code).        *)
(***************************************************************************)
EXTENDS Integers, Sequences, FiniteSets, TLC

VARIABLES
    op,        \* the operation that has run ("init" before any)
    d0,        \* schema.ResourceData as the operation found it
    d,         \* schema.ResourceData: [disk |-> schema.Set, vga |-> set of records]
    config,    \* pxapi.ConfigQemu read from the API: [QemuDisks, QemuVga]
    outSet,    \* the *schema.Set an operation returned
    outMap     \* the pxapi.QemuDevices an operation returned

devVars == <<op, d0, d, config, outSet, outMap>>

VARIABLES
    pc,          \* the running handler's position ("idle" when none runs)
    calls,       \* the external steps taken so far, in order
    ret,         \* what the handler returned ("none" while it runs)
    resId,       \* the resource id (d.Id()): "" or the VM it names
    forceCreate, \* force_create
    clone,       \* clone is set (non-empty)
    iso,         \* iso is set (non-empty)
    qemuDisks,   \* the declared disks: slot id -> size string
    remoteDisks, \* the disks the VM has on the cluster: slot id -> size string
    dupVmr,      \* the duplicate-name lookup's result: "nil", "same", "other" node
    vmr,         \* the VM reference in use: "nil", "dup" or "new"
    clonedDisks, \* prepareDiskSize: the disks of the configuration read back
    todo,        \* prepareDiskSize: the declared disks the loop has yet to visit
    pdsRet       \* what prepareDiskSize returned to its caller ("none" before)

VARIABLES
    handler,     \* the function that runs: "Create", "Update", "prepareDiskSize"
    idOk,        \* Update: parseResourceId accepts d.Id()
    nodeChanged, \* Update: d.HasChange("target_node")
    vmStatus,    \* Update: the status the cluster reports for the VM
    osOld,       \* qemu_os as stored, a string of characters
    osNew,       \* qemu_os as configured
    osSuppress   \* what the DiffSuppressFunc of qemu_os returned ("none" before)

\* what a handler is given and never writes
envVars == <<handler, idOk, nodeChanged, vmStatus, osOld, osNew, osSuppress>>

createVars == <<pc, calls, ret, resId, forceCreate, clone, iso, qemuDisks,
                remoteDisks, dupVmr, vmr, clonedDisks, todo, pdsRet, envVars>>

vars == <<devVars, createVars>>

(***************************************************************************)
(* Bounds                                                                  *)
(***************************************************************************)
\* declared device slot ids are 0..MaxId
MaxId == 1

\* the most whitespace characters put before or after a qemu_os value
MaxPad == 1

Ids == 0 .. MaxId

(***************************************************************************)
(* Go values                                                               *)
(***************************************************************************)
IntV(n) == <<"int", n>>

BoolV(b) == <<"bool", IF b THEN 1 ELSE 0>>

StrV(n) == <<"str", n>>

EmptyFn == [x \in {} |-> 0]

\* m[k] = v on a Go map
Put(m, k, v) == [x \in DOMAIN m \cup {k} |-> IF x = k THEN v ELSE m[x]]

\* delete(m, k) on a Go map
Del(m, k) == [x \in DOMAIN m \ {k} |-> m[x]]

Range(f) == {f[x] : x \in DOMAIN f}

Perms(S) == {s \in [1 .. Cardinality(S) -> S] : \A i, j \in DOMAIN s : i # j => s[i] # s[j]}

(***************************************************************************)
(* The "disk" schema: id (int), backup (bool, default false),              *)
(* mbps (int, default 0).                                                  *)
(***************************************************************************)
DiskSchemaKeys == {"id", "backup", "mbps"}

\* the records Terraform hands over for a declared disk with slot id i
DeclaredRecords(i) ==
    {[id |-> IntV(i), backup |-> BoolV(b), mbps |-> IntV(0)] : b \in BOOLEAN}

\* what the API map may hold for an attribute the configuration types as
\* bool: the integers 0 and 1, another integer, a string, or a bool
ApiBoolValues == {IntV(0), IntV(1), IntV(2), StrV(1), BoolV(TRUE)}

ApiIntValues == {IntV(0), IntV(1)}

\* the values the API may report for attribute k
ApiAttrValues(k) == IF k = "backup" THEN ApiBoolValues ELSE ApiIntValues

\* the records the API may report for slot id i: the id, and any subset of
\* the other attributes
ApiRecords(i) ==
    {Put(r, "id", IntV(i)) :
        r \in UNION {{f \in [K -> ApiBoolValues \cup ApiIntValues] :
                         \A k \in K : f[k] \in ApiAttrValues(k)} :
                     K \in SUBSET {"backup", "mbps"}}}

(***************************************************************************)
(* schema.Set                                                              *)
(***************************************************************************)
\* the set's hash function (schema.HashResource): the serialisation of the
\* values of the schema's keys
Hash(rec) == [k \in DOMAIN rec \cap DiskSchemaKeys |-> rec[k]]

EmptySet == [m |-> EmptyFn, heap |-> EmptyFn]

\* devicesSet.Add(item): files the reference under the hash of its current
\* content unless that code is taken
SetAdd(s, ref) ==
    LET code == Hash(s.heap[ref])
    IN  IF code \in DOMAIN s.m THEN s ELSE [s EXCEPT !.m = Put(s.m, code, ref)]

\* devicesSet.Remove(item)
SetRemove(s, ref) == [s EXCEPT !.m = Del(s.m, Hash(s.heap[ref]))]

\* devicesSet.List(): the references held, one per hash code
SetRefs(s) == Range(s.m)

\* devicesSet.Len()
SetLen(s) == Cardinality(DOMAIN s.m)

\* the records a set holds, as List() returns them
SetRecords(s) == {s.heap[r] : r \in SetRefs(s)}

\* the set d.Get returns for declared records decl (slot id -> record)
MkSet(decl) ==
    [m |-> [c \in {Hash(decl[i]) : i \in DOMAIN decl} |->
               CHOOSE i \in DOMAIN decl : Hash(decl[i]) = c],
     heap |-> decl]

(***************************************************************************)
(* expandDevices (qemu_structure.go) and DevicesSetToMap                   *)
(* (resource_vm_qemu.go): the same code under two names.                   *)
(***************************************************************************)
RECURSIVE ExpandRefs(_, _, _)
\* the loop over devicesSet.List(): devicesMap[setMap["id"]] = setMap
ExpandRefs(s, refs, devicesMap) ==
    IF refs = {} THEN devicesMap
    ELSE LET r == CHOOSE x \in refs : TRUE
             setMap == s.heap[r]
         IN  ExpandRefs(s, refs \ {r}, Put(devicesMap, setMap["id"][2], setMap))

\* a variant that takes a zero id for an unset one and skips the record
expandDevices_SkipZeroId(s) ==
    ExpandRefs(s, {r \in SetRefs(s) : s.heap[r]["id"] # IntV(0)}, EmptyFn)

expandDevices(s) == ExpandRefs(s, SetRefs(s), EmptyFn)

DevicesSetToMap(s) == expandDevices(s)

(***************************************************************************)
(* updateDevicesDefaults                                                   *)
(***************************************************************************)
\* a variant that fills a gap with the zero value of the declared type
FillDefaults_ZeroValue(activeConf, deviceConf) ==
    [k \in DOMAIN activeConf \cup DOMAIN deviceConf |->
        IF k \in DOMAIN activeConf THEN activeConf[k] ELSE <<deviceConf[k][1], 0>>]

\* a variant in which the declared value wins over the reported one
FillDefaults_DeclaredWins(activeConf, deviceConf) ==
    [k \in DOMAIN activeConf \cup DOMAIN deviceConf |->
        IF k \in DOMAIN deviceConf THEN deviceConf[k] ELSE activeConf[k]]

\* the inner loop: a key the active record lacks takes the declared value
FillDefaults(activeConf, deviceConf) ==
    [k \in DOMAIN activeConf \cup DOMAIN deviceConf |->
        IF k \in DOMAIN activeConf THEN activeConf[k] ELSE deviceConf[k]]

updateDevicesDefaults(activeDevicesMap, configDevicesMap) ==
    [i \in DOMAIN activeDevicesMap \cup DOMAIN configDevicesMap |->
        IF i \in DOMAIN configDevicesMap
        THEN FillDefaults(IF i \in DOMAIN activeDevicesMap
                          THEN activeDevicesMap[i]
                          ELSE configDevicesMap[i],
                          configDevicesMap[i])
        ELSE activeDevicesMap[i]]

(***************************************************************************)
(* flattenDevices (qemu_structure.go)                                      *)
(***************************************************************************)
\* for key, value := range activeConf { setConfMap[key] = value }
CopyAll(setConfMap, activeConf) ==
    [k \in DOMAIN setConfMap \cup DOMAIN activeConf |->
        IF k \in DOMAIN activeConf THEN activeConf[k] ELSE setConfMap[k]]

\* one round of the loop over devicesSet.List(): Remove, copy, Add
FlattenOne(s, ref, activeDevicesMap) ==
    LET removed == SetRemove(s, ref)
        deviceID == s.heap[ref]["id"][2]
        activeConf == IF deviceID \in DOMAIN activeDevicesMap
                      THEN activeDevicesMap[deviceID] ELSE EmptyFn
        copied == [removed EXCEPT !.heap[ref] = CopyAll(s.heap[ref], activeConf)]
    IN  SetAdd(copied, ref)

RECURSIVE FlattenRefs(_, _, _)
FlattenRefs(s, refs, activeDevicesMap) ==
    IF refs = {} THEN s
    ELSE LET r == CHOOSE x \in refs : \A y \in refs : x <= y
         IN  FlattenRefs(FlattenOne(s, r, activeDevicesMap), refs \ {r}, activeDevicesMap)

flattenDevices(devicesSet, devicesMap) ==
    LET configDevicesMap == expandDevices(devicesSet)
        activeDevicesMap == updateDevicesDefaults(devicesMap, configDevicesMap)
    IN  FlattenRefs(devicesSet, SetRefs(devicesSet), activeDevicesMap)

(***************************************************************************)
(* UpdateDevicesSet (resource_vm_qemu.go)                                  *)
(***************************************************************************)
\* strconv.ParseBool(strconv.Itoa(n)): <<ok, value>>
ParseBoolItoa(n) ==
    IF n = 1 THEN <<TRUE, TRUE>>
    ELSE IF n = 0 THEN <<TRUE, FALSE>>
    ELSE <<FALSE, FALSE>>

\* a variant without the type switch: the value is stored as reported
SwitchAssign_NoSwitch(setConfMap, key, value) == Put(setConfMap, key, value)

\* the nested type switch on setConfMap[key] and value
SwitchAssign(setConfMap, key, value) ==
    IF key \in DOMAIN setConfMap /\ setConfMap[key][1] = "bool"
    THEN IF value[1] = "int"
         THEN LET p == ParseBoolItoa(value[2])
              IN  IF p[1] THEN Put(setConfMap, key, BoolV(p[2])) ELSE setConfMap
         ELSE IF value[1] = "bool"
         THEN Put(setConfMap, key, value)
         ELSE setConfMap
    ELSE Put(setConfMap, key, value)

RECURSIVE UpdateKeys(_, _, _, _, _)
\* the inner loop over the active record's keys, visited in the order keys:
\* the record is changed and then added to the set after every key
UpdateKeys(s, ref, activeConf, keys, i) ==
    IF i > Len(keys) THEN s
    ELSE LET assigned == [s EXCEPT !.heap[ref] =
                             SwitchAssign(s.heap[ref], keys[i], activeConf[keys[i]])]
         IN  UpdateKeys(SetAdd(assigned, ref), ref, activeConf, keys, i + 1)

\* one round of the loop over devicesSet.List()
UpdateOne(s, ref, activeDevicesMap, keys) ==
    LET removed == SetRemove(s, ref)
        deviceID == s.heap[ref]["id"][2]
        activeConf == IF deviceID \in DOMAIN activeDevicesMap
                      THEN activeDevicesMap[deviceID] ELSE EmptyFn
        IsKey(k) == k \in DOMAIN activeConf
    IN  UpdateKeys(removed, ref, activeConf, SelectSeq(keys, IsKey), 1)

\* the orders in which Go's range may visit the keys of a record; a
\* record's order is read off as the subsequence of the keys it has
KeyOrders == Perms(DiskSchemaKeys)

RECURSIVE UpdateRefs(_, _, _)
\* the loop over devicesSet.List(), from each set of sets the rounds so far
\* may have produced: every round takes any key order
UpdateRefs(sets, refs, activeDevicesMap) ==
    IF refs = {} THEN sets
    ELSE LET r == CHOOSE x \in refs : \A y \in refs : x <= y
         IN  UpdateRefs({UpdateOne(s, r, activeDevicesMap, keys) :
                            s \in sets, keys \in KeyOrders},
                        refs \ {r}, activeDevicesMap)

\* the sets UpdateDevicesSet may return (one per choice of key orders)
UpdateDevicesSet(devicesSet, devicesMap) ==
    LET configDevicesMap == DevicesSetToMap(devicesSet)
        activeDevicesMap == updateDevicesDefaults(devicesMap, configDevicesMap)
    IN  UpdateRefs({devicesSet}, SetRefs(devicesSet), activeDevicesMap)

(***************************************************************************)
(* schema.ResourceData and the display adapter                             *)
(***************************************************************************)
\* d.Set(key, value): a key the resource schema does not declare is
\* rejected and the data is left as it was (the error is dropped)
DSet(data, key, value) ==
    IF key \in DOMAIN data THEN [data EXCEPT ![key] = value] ELSE data

\* the vga block of the configuration: type (string, default "std" = 1),
\* memory (int)
DeclaredVga == [type |-> StrV(1), memory |-> IntV(0)]

\* what the API may report for the display adapter
ApiVgas == {EmptyFn, [type |-> StrV(2)]}

\* UpdateDeviceConfDefaults(config.QemuVga, activeVgaSet): the declared
\* block with every attribute the API reports replaced by the API's value
UpdateDeviceConfDefaults(activeDeviceConf, defaultDeviceConf) ==
    {[k \in DOMAIN r |-> IF k \in DOMAIN activeDeviceConf
                         THEN activeDeviceConf[k] ELSE r[k]] : r \in defaultDeviceConf}

(***************************************************************************)
(* Inputs                                                                  *)
(***************************************************************************)
RECURSIVE PartialMaps(_, _)
\* the functions from a subset of ids to records, the record of i in R[i]
PartialMaps(ids, R) ==
    IF ids = {} THEN {EmptyFn}
    ELSE LET i == CHOOSE x \in ids : TRUE
             rest == PartialMaps(ids \ {i}, R)
         IN  rest \cup {Put(f, i, r) : f \in rest, r \in R[i]}

\* the declared device sets: records with pairwise distinct slot ids
DeclaredMaps == PartialMaps(Ids, [i \in Ids |-> DeclaredRecords(i)])

\* a record the API reports for a slot the configuration does not declare
ApiOnlyRecords(i) == {[id |-> IntV(i), backup |-> IntV(1), mbps |-> IntV(1)]}

\* the API device maps for the declared records decl
ApiMaps(decl) ==
    PartialMaps(Ids, [i \in Ids |-> IF i \in DOMAIN decl
                                    THEN ApiRecords(i) ELSE ApiOnlyRecords(i)])

\* the API device maps whose values have the types Proxmox reports
\* (integers, 0 or 1 for a flag)
TypedApiMaps(decl) ==
    {a \in ApiMaps(decl) :
        \A i \in DOMAIN a : "backup" \in DOMAIN a[i] => a[i]["backup"] \in {IntV(0), IntV(1)}}

\* the lifecycle handlers do not run
CreateIdle ==
    /\ pc = "idle"
    /\ calls = <<>>
    /\ ret = "none"
    /\ resId = ""
    /\ forceCreate = FALSE
    /\ clone = FALSE
    /\ iso = FALSE
    /\ qemuDisks = EmptyFn
    /\ remoteDisks = EmptyFn
    /\ dupVmr = "nil"
    /\ vmr = "nil"
    /\ clonedDisks = EmptyFn
    /\ todo = {}
    /\ pdsRet = "none"
    /\ handler = "none"
    /\ idOk = TRUE
    /\ nodeChanged = FALSE
    /\ vmStatus = "stopped"
    /\ osOld = <<>>
    /\ osNew = <<>>
    /\ osSuppress = "none"

InitDev ==
    /\ CreateIdle
    /\ op = "init"
    /\ \E decl \in DeclaredMaps :
          /\ d = [disk |-> MkSet(decl), vga |-> {}]
          /\ \E api \in ApiMaps(decl) : config = [QemuDisks |-> api, QemuVga |-> EmptyFn]
    /\ d0 = d
    /\ outSet = EmptySet
    /\ outMap = EmptyFn

InitFlatten ==
    /\ CreateIdle
    /\ op = "init"
    /\ \E decl \in DeclaredMaps, vga \in {{}, {DeclaredVga}} :
          /\ d = [disk |-> MkSet(decl), vga |-> vga]
          /\ \E api \in TypedApiMaps(decl), apiVga \in ApiVgas :
                config = [QemuDisks |-> api, QemuVga |-> apiVga]
    /\ d0 = d
    /\ outSet = EmptySet
    /\ outMap = EmptyFn

(***************************************************************************)
(* Operations on device sets                                               *)
(***************************************************************************)
CallExpandDevices ==
    /\ op = "init"
    /\ op' = "expandDevices"
    /\ outMap' = expandDevices(d.disk)
    /\ UNCHANGED <<d0, d, config, outSet, createVars>>

CallUpdateDevicesDefaults ==
    /\ op = "init"
    /\ op' = "updateDevicesDefaults"
    /\ outMap' = updateDevicesDefaults(config.QemuDisks, expandDevices(d.disk))
    /\ UNCHANGED <<d0, d, config, outSet, createVars>>

CallFlattenDevices ==
    /\ op = "init"
    /\ op' = "flattenDevices"
    /\ outSet' = flattenDevices(d.disk, config.QemuDisks)
    /\ UNCHANGED <<d0, d, config, outMap, createVars>>

CallUpdateDevicesSet ==
    /\ op = "init"
    /\ op' = "UpdateDevicesSet"
    /\ outSet' \in UpdateDevicesSet(d.disk, config.QemuDisks)
    /\ UNCHANGED <<d0, d, config, outMap, createVars>>

NextDev ==
    \/ CallExpandDevices
    \/ CallUpdateDevicesDefaults
    \/ CallFlattenDevices
    \/ CallUpdateDevicesSet

SpecDev == InitDev /\ [][NextDev]_vars

(***************************************************************************)
(* Flatten: API response -> configuration fields                           *)
(***************************************************************************)
\* flattenVmQemu of qemu_structure.go: the disk and display part
flattenVmQemu ==
    /\ op = "init"
    /\ op' = "flattenVmQemu"
    /\ LET activeDisksSet == flattenDevices(d.disk, config.QemuDisks)
           d1 == DSet(d, "disk", activeDisksSet)
           activeVgaSet == d1.vga
       IN  d' = IF activeVgaSet # {}
                THEN DSet(d1, "features",
                          UpdateDeviceConfDefaults(config.QemuVga, activeVgaSet))
                ELSE d1
    /\ UNCHANGED <<d0, config, outSet, outMap, createVars>>

\* resourceVmQemuRead: GetVmInfo or NewConfigQemuFromApi may fail, and then
\* nothing is written; otherwise the disk and display part
resourceVmQemuRead ==
    /\ op = "init"
    /\ \E apiOk \in BOOLEAN :
          IF ~apiOk
          THEN /\ op' = "resourceVmQemuReadErr"
               /\ d' = d
          ELSE /\ op' = "resourceVmQemuRead"
               /\ \E activeDisksSet \in UpdateDevicesSet(d.disk, config.QemuDisks) :
                     LET d1 == DSet(d, "disk", activeDisksSet)
                         activeVgaSet == d1.vga
                     IN  d' = IF activeVgaSet # {}
                              THEN DSet(d1, "features",
                                        UpdateDeviceConfDefaults(config.QemuVga, activeVgaSet))
                              ELSE d1
    /\ UNCHANGED <<d0, config, outSet, outMap, createVars>>

NextFlatten ==
    \/ flattenVmQemu
    \/ resourceVmQemuRead

SpecFlatten == InitFlatten /\ [][NextFlatten]_vars

(***************************************************************************)
(* Lifecycle orchestration: resourceVmQemuCreate and prepareDiskSize       *)
(***************************************************************************)
\* an external step: its name, the disk it is about (-1: none), the GB a
\* resize asks for, and whether it succeeded
Step(name, ok) == [step |-> name, disk |-> -1, gb |-> 0, ok |-> ok]

ResizeStep(diskID, diffSize, ok) ==
    [step |-> "ResizeQemuDisk", disk |-> diskID, gb |-> diffSize, ok |-> ok]

\* the size strings of the declared and of the existing disks: <<digits, unit>>
DiskSizes == {<<1, "G">>, <<2, "G">>}

DiskMaps == PartialMaps(Ids, [i \in Ids |-> DiskSizes])

\* diskSizeGB: the leading digits, divided by 1000 for M/MB and by 1000000
\* for K/KB; the float64 result is held in millionths of a GB
diskSizeGB(dcSize) ==
    IF dcSize[2] \in {"M", "MB"} THEN dcSize[1] * 1000
    ELSE IF dcSize[2] \in {"K", "KB"} THEN dcSize[1]
    ELSE dcSize[1] * 1000000

\* int(math.Ceil(x)) of x millionths of a GB
CeilGB(x) ==
    IF x >= 0 THEN (x + 999999) \div 1000000 ELSE -((-x) \div 1000000)

\* a variant of the test below that rejects a duplicate only under force_create
DuplicateError_ForceOnly(dup, force) == dup # "nil" /\ force

\* the duplicate-name test: a VM of that name exists and either
\* force_create is set or the VM is on another node than target_node
DuplicateError(dup, force) ==
    \/ dup # "nil" /\ force
    \/ dup # "nil" /\ dup # "same"

InitCreate ==
    /\ op = "idle"
    /\ d = [disk |-> EmptySet, vga |-> {}]
    /\ d0 = d
    /\ config = [QemuDisks |-> EmptyFn, QemuVga |-> EmptyFn]
    /\ outSet = EmptySet
    /\ outMap = EmptyFn
    /\ pc = "GetVmRefByName"
    /\ calls = <<>>
    /\ ret = "none"
    /\ resId = ""
    /\ forceCreate \in BOOLEAN
    /\ clone \in BOOLEAN
    /\ iso \in BOOLEAN
    /\ qemuDisks \in DiskMaps
    /\ remoteDisks \in DiskMaps
    /\ dupVmr = "nil"
    /\ vmr = "nil"
    /\ clonedDisks = EmptyFn
    /\ todo = {}
    /\ pdsRet = "none"
    /\ handler = "Create"
    /\ idOk = TRUE
    /\ nodeChanged = FALSE
    /\ vmStatus = "stopped"
    /\ osOld = <<>>
    /\ osNew = <<>>
    /\ osSuppress = "none"

\* return err
ReturnError(c, e) ==
    /\ calls' = c
    /\ ret' = e
    /\ pc' = "done"

\* client.GetVmRefByName(vmName) and the duplicate tests; the lookup's
\* error is dropped, so only the reference it returned counts
Create_GetVmRefByName ==
    /\ pc = "GetVmRefByName"
    /\ \E found \in {"nil", "same", "other"} :
          LET c == Append(calls, Step("GetVmRefByName(name)", found # "nil"))
          IN  /\ dupVmr' = found
              /\ IF DuplicateError(found, forceCreate)
                 THEN /\ ReturnError(c, "Duplicate VM name")
                      /\ vmr' = vmr
                 ELSE /\ calls' = c
                      /\ ret' = ret
                      /\ vmr' = IF found = "nil" THEN "nil" ELSE "dup"
                      /\ pc' = IF found = "nil" THEN "nextVmId" ELSE "StopVm"
    /\ UNCHANGED <<devVars, envVars, pdsRet, resId, forceCreate, clone, iso, qemuDisks, remoteDisks,
                   clonedDisks, todo>>

\* a variant that takes the iso path whenever clone is empty
Create_nextVmId_IsoDefault ==
    /\ pc = "nextVmId"
    /\ \E ok \in BOOLEAN :
          LET c == Append(calls, Step("nextVmId", ok))
          IN  IF ~ok
              THEN ReturnError(c, "nextVmId") /\ vmr' = vmr
              ELSE /\ vmr' = "new"
                   /\ calls' = c
                   /\ ret' = ret
                   /\ pc' = IF clone THEN "GetCloneSource" ELSE "CreateVm"
    /\ UNCHANGED <<devVars, envVars, pdsRet, resId, forceCreate, clone, iso, qemuDisks,
                   remoteDisks, dupVmr, clonedDisks, todo>>

\* nextVmId(pconf), NewVmRef, and the choice between clone and iso
Create_nextVmId ==
    /\ pc = "nextVmId"
    /\ \E ok \in BOOLEAN :
          LET c == Append(calls, Step("nextVmId", ok))
          IN  IF ~ok
              THEN ReturnError(c, "nextVmId") /\ vmr' = vmr
              ELSE /\ vmr' = "new"
                   /\ IF clone THEN calls' = c /\ ret' = ret /\ pc' = "GetCloneSource"
                      ELSE IF iso THEN calls' = c /\ ret' = ret /\ pc' = "CreateVm"
                      ELSE ReturnError(c, "Either clone or iso must be set")
    /\ UNCHANGED <<devVars, envVars, pdsRet, resId, forceCreate, clone, iso, qemuDisks, remoteDisks,
                   dupVmr, clonedDisks, todo>>

\* sourceVmr, err := client.GetVmRefByName(clone)
Create_GetCloneSource ==
    /\ pc = "GetCloneSource"
    /\ \E ok \in BOOLEAN :
          LET c == Append(calls, Step("GetVmRefByName(clone)", ok))
          IN  IF ok THEN calls' = c /\ ret' = ret /\ pc' = "CloneVm"
              ELSE ReturnError(c, "GetVmRefByName(clone)")
    /\ UNCHANGED <<devVars, envVars, pdsRet, resId, forceCreate, clone, iso, qemuDisks, remoteDisks,
                   dupVmr, vmr, clonedDisks, todo>>

\* config.CloneVm(sourceVmr, vmr, client)
Create_CloneVm ==
    /\ pc = "CloneVm"
    /\ \E ok \in BOOLEAN :
          LET c == Append(calls, Step("CloneVm", ok))
          IN  IF ok THEN calls' = c /\ ret' = ret /\ pc' = "UpdateConfig"
              ELSE ReturnError(c, "CloneVm")
    /\ UNCHANGED <<devVars, envVars, pdsRet, resId, forceCreate, clone, iso, qemuDisks, remoteDisks,
                   dupVmr, vmr, clonedDisks, todo>>

\* a variant that returns when StopVm fails
Create_StopVm_ReturnError ==
    /\ pc = "StopVm"
    /\ \E ok \in BOOLEAN :
          LET c == Append(calls, Step("StopVm", ok))
          IN  IF ok THEN calls' = c /\ ret' = ret /\ pc' = "UpdateConfig"
              ELSE ReturnError(c, "StopVm")
    /\ UNCHANGED <<devVars, envVars, pdsRet, resId, forceCreate, clone, iso, qemuDisks,
                   remoteDisks, dupVmr, vmr, clonedDisks, todo>>

\* client.StopVm(vmr) on the recycle path; its result is dropped
Create_StopVm ==
    /\ pc = "StopVm"
    /\ \E ok \in BOOLEAN : calls' = Append(calls, Step("StopVm", ok))
    /\ pc' = "UpdateConfig"
    /\ UNCHANGED <<devVars, envVars, pdsRet, ret, resId, forceCreate, clone, iso, qemuDisks, remoteDisks,
                   dupVmr, vmr, clonedDisks, todo>>

\* a variant that returns UpdateConfig's error without setting the id
Create_UpdateConfig_NoSetId ==
    /\ pc = "UpdateConfig"
    /\ \E ok \in BOOLEAN :
          LET c == Append(calls, Step("UpdateConfig", ok))
              wait == IF vmr = "new" THEN "Sleep(clone_wait)" ELSE "Sleep(5)"
          IN  IF ok
              THEN /\ calls' = Append(c, Step(wait, TRUE))
                   /\ ret' = ret
                   /\ pc' = "prepareDiskSize"
              ELSE ReturnError(c, "UpdateConfig")
    /\ UNCHANGED <<devVars, envVars, pdsRet, resId, forceCreate, clone, iso, qemuDisks,
                   remoteDisks, dupVmr, vmr, clonedDisks, todo>>

\* config.UpdateConfig(vmr, client) on the clone and on the recycle path: on
\* an error the id is set and the error returned; otherwise the handler
\* sleeps (clone_wait seconds after a clone, 5 when recycling)
Create_UpdateConfig ==
    /\ pc = "UpdateConfig"
    /\ \E ok \in BOOLEAN :
          LET c == Append(calls, Step("UpdateConfig", ok))
              wait == IF vmr = "new" THEN "Sleep(clone_wait)" ELSE "Sleep(5)"
          IN  IF ok
              THEN /\ calls' = Append(c, Step(wait, TRUE))
                   /\ ret' = ret
                   /\ resId' = resId
                   /\ pc' = "prepareDiskSize"
              ELSE /\ ReturnError(Append(c, Step("SetId", TRUE)), "UpdateConfig")
                   /\ resId' = vmr
    /\ UNCHANGED <<devVars, envVars, pdsRet, forceCreate, clone, iso, qemuDisks, remoteDisks,
                   dupVmr, vmr, clonedDisks, todo>>

\* a variant that starts the VM without the 15 s wait
Create_AfterPrepareDiskSize_NoWait(c, e) ==
    IF e # "nil"
    THEN ReturnError(c, e) /\ resId' = resId
    ELSE /\ calls' = Append(c, Step("SetId", TRUE))
         /\ resId' = vmr
         /\ ret' = ret
         /\ pc' = "StartVm"

\* prepareDiskSize returned e ("nil": no error) to resourceVmQemuCreate: an
\* error is returned; otherwise d.SetId, the 15 s sleep, and on to StartVm
Create_AfterPrepareDiskSize(c, e) ==
    IF e # "nil"
    THEN ReturnError(c, e) /\ resId' = resId
    ELSE /\ calls' = c \o <<Step("SetId", TRUE), Step("Sleep(15)", TRUE)>>
         /\ resId' = vmr
         /\ ret' = ret
         /\ pc' = "StartVm"

\* prepareDiskSize returned e to resourceVmQemuUpdate, which drops it:
\* the 15 s sleep, and on to GetVmState
Update_AfterPrepareDiskSize(c, e) ==
    /\ calls' = Append(c, Step("Sleep(15)", TRUE))
    /\ pc' = "Update_GetVmState"
    /\ UNCHANGED <<ret, resId>>

\* prepareDiskSize returns e to whoever called it
AfterPrepareDiskSize(c, e) ==
    /\ pdsRet' = e
    /\ IF handler = "Create" THEN Create_AfterPrepareDiskSize(c, e)
       ELSE IF handler = "Update" THEN Update_AfterPrepareDiskSize(c, e)
       ELSE ReturnError(c, e) /\ resId' = resId

\* prepareDiskSize up to its loop: pxapi.NewConfigQemuFromApi(vmr, client)
prepareDiskSize_NewConfigQemuFromApi ==
    /\ pc = "prepareDiskSize"
    /\ \E ok \in BOOLEAN :
          LET c == calls \o <<Step("prepareDiskSize", TRUE),
                              Step("NewConfigQemuFromApi", ok)>>
          IN  IF ~ok
              THEN /\ AfterPrepareDiskSize(c, "NewConfigQemuFromApi")
                   /\ UNCHANGED <<clonedDisks, todo>>
              ELSE /\ clonedDisks' = remoteDisks
                   /\ todo' = DOMAIN qemuDisks
                   /\ IF qemuDisks = EmptyFn
                      THEN AfterPrepareDiskSize(c, "nil")
                      ELSE /\ calls' = c
                           /\ pc' = "diskLoop"
                           /\ UNCHANGED <<ret, resId, pdsRet>>
    /\ UNCHANGED <<devVars, envVars, forceCreate, clone, iso, qemuDisks, remoteDisks, dupVmr, vmr>>

\* one round of prepareDiskSize's loop over diskConfMap, in the order Go's
\* range takes: a disk the VM lacks ends the pass with the (nil) error at
\* hand; a disk declared larger than it is gets resized; after the last
\* disk the pass returns nil
prepareDiskSize_Disk ==
    /\ pc = "diskLoop"
    /\ \E diskID \in todo :
          LET diskSize == diskSizeGB(qemuDisks[diskID])
              rest == todo \ {diskID}
          IN  IF diskID \notin DOMAIN clonedDisks
              THEN /\ AfterPrepareDiskSize(calls, "nil")
                   /\ todo' = rest
              ELSE LET clonedDiskSize == diskSizeGB(clonedDisks[diskID])
                       diffSize == CeilGB(diskSize - clonedDiskSize)
                   IN  IF diskSize > clonedDiskSize
                       THEN \E ok \in BOOLEAN :
                               LET c == Append(calls, ResizeStep(diskID, diffSize, ok))
                               IN  /\ todo' = rest
                                   /\ IF ~ok
                                      THEN AfterPrepareDiskSize(c, "ResizeQemuDisk")
                                      ELSE IF rest = {}
                                      THEN AfterPrepareDiskSize(c, "nil")
                                      ELSE /\ calls' = c
                                           /\ UNCHANGED <<pc, ret, resId, pdsRet>>
                       ELSE /\ todo' = rest
                            /\ IF rest = {}
                               THEN AfterPrepareDiskSize(calls, "nil")
                               ELSE UNCHANGED <<pc, calls, ret, resId, pdsRet>>
    /\ UNCHANGED <<devVars, envVars, forceCreate, clone, iso, qemuDisks, remoteDisks, dupVmr, vmr,
                   clonedDisks>>

\* a variant that updates the configuration of the VM it created
Create_CreateVm_ThenUpdateConfig ==
    /\ pc = "CreateVm"
    /\ \E ok \in BOOLEAN :
          LET c == Append(calls, Step("CreateVm", ok))
          IN  IF ok
              THEN calls' = c /\ ret' = ret /\ pc' = "UpdateConfig"
              ELSE ReturnError(c, "CreateVm")
    /\ UNCHANGED <<devVars, envVars, pdsRet, resId, forceCreate, clone, iso, qemuDisks,
                   remoteDisks, dupVmr, vmr, clonedDisks, todo>>

\* config.CreateVm(vmr, client) on the iso path, then d.SetId and the sleep
Create_CreateVm ==
    /\ pc = "CreateVm"
    /\ \E ok \in BOOLEAN :
          LET c == Append(calls, Step("CreateVm", ok))
          IN  IF ok
              THEN /\ calls' = c \o <<Step("SetId", TRUE), Step("Sleep(15)", TRUE)>>
                   /\ resId' = vmr
                   /\ ret' = ret
                   /\ pc' = "StartVm"
              ELSE ReturnError(c, "CreateVm") /\ resId' = resId
    /\ UNCHANGED <<devVars, envVars, pdsRet, forceCreate, clone, iso, qemuDisks, remoteDisks,
                   dupVmr, vmr, clonedDisks, todo>>

\* a variant that tries StartVm again when it fails
Create_StartVm_Retry ==
    /\ pc = "StartVm"
    /\ \E ok \in BOOLEAN :
          /\ calls' = Append(calls, Step("StartVm", ok))
          /\ IF ok THEN ret' = "ok" /\ pc' = "done" ELSE UNCHANGED <<ret, pc>>
    /\ Len(calls) < 16
    /\ UNCHANGED <<devVars, envVars, pdsRet, resId, forceCreate, clone, iso, qemuDisks, remoteDisks,
                   dupVmr, vmr, clonedDisks, todo>>

\* client.StartVm(vmr) and the return
Create_StartVm ==
    /\ pc = "StartVm"
    /\ \E ok \in BOOLEAN :
          /\ calls' = Append(calls, Step("StartVm", ok))
          /\ ret' = IF ok THEN "ok" ELSE "StartVm"
    /\ pc' = "done"
    /\ UNCHANGED <<devVars, envVars, pdsRet, resId, forceCreate, clone, iso, qemuDisks, remoteDisks,
                   dupVmr, vmr, clonedDisks, todo>>

NextCreate ==
    \/ Create_GetVmRefByName
    \/ Create_nextVmId
    \/ Create_GetCloneSource
    \/ Create_CloneVm
    \/ Create_StopVm
    \/ Create_UpdateConfig
    \/ prepareDiskSize_NewConfigQemuFromApi
    \/ prepareDiskSize_Disk
    \/ Create_CreateVm
    \/ Create_StartVm

SpecCreate == InitCreate /\ [][NextCreate]_vars

(***************************************************************************)
(* Lifecycle orchestration: resourceVmQemuUpdate                           *)
(***************************************************************************)
\* what only resourceVmQemuCreate reads or writes
createOnly == <<forceCreate, clone, iso, dupVmr>>

InitUpdate ==
    /\ op = "idle"
    /\ d = [disk |-> EmptySet, vga |-> {}]
    /\ d0 = d
    /\ config = [QemuDisks |-> EmptyFn, QemuVga |-> EmptyFn]
    /\ outSet = EmptySet
    /\ outMap = EmptyFn
    /\ pc = "Update_parseResourceId"
    /\ calls = <<>>
    /\ ret = "none"
    /\ resId = "dup"
    /\ forceCreate = FALSE
    /\ clone = FALSE
    /\ iso = FALSE
    /\ qemuDisks \in DiskMaps
    /\ remoteDisks \in DiskMaps
    /\ dupVmr = "nil"
    /\ vmr = "nil"
    /\ clonedDisks = EmptyFn
    /\ todo = {}
    /\ pdsRet = "none"
    /\ handler = "Update"
    /\ idOk \in BOOLEAN
    /\ nodeChanged \in BOOLEAN
    /\ vmStatus \in {"stopped", "running"}
    /\ osOld = <<>>
    /\ osNew = <<>>
    /\ osSuppress = "none"

\* parseResourceId(d.Id()) and pxapi.NewVmRef(vmID)
Update_parseResourceId ==
    /\ pc = "Update_parseResourceId"
    /\ LET c == Append(calls, Step("parseResourceId", idOk))
       IN  IF idOk
           THEN calls' = c /\ ret' = ret /\ pc' = "Update_GetVmInfo" /\ vmr' = "dup"
           ELSE ReturnError(c, "parseResourceId") /\ vmr' = vmr
    /\ UNCHANGED <<devVars, envVars, createOnly, pdsRet, resId, qemuDisks, remoteDisks,
                   clonedDisks, todo>>

\* client.GetVmInfo(vmr), then the test d.HasChange("target_node")
Update_GetVmInfo ==
    /\ pc = "Update_GetVmInfo"
    /\ \E ok \in BOOLEAN :
          LET c == Append(calls, Step("GetVmInfo", ok))
          IN  IF ok
              THEN /\ calls' = c
                   /\ ret' = ret
                   /\ pc' = IF nodeChanged THEN "Update_MigrateNode" ELSE "Update_UpdateConfig"
              ELSE ReturnError(c, "GetVmInfo")
    /\ UNCHANGED <<devVars, envVars, createOnly, pdsRet, resId, qemuDisks, remoteDisks,
                   vmr, clonedDisks, todo>>

\* a variant that goes on to UpdateConfig when the migration failed
Update_MigrateNode_IgnoreError ==
    /\ pc = "Update_MigrateNode"
    /\ \E ok \in BOOLEAN : calls' = Append(calls, Step("MigrateNode", ok))
    /\ pc' = "Update_UpdateConfig"
    /\ UNCHANGED <<devVars, envVars, createOnly, pdsRet, ret, resId, qemuDisks, remoteDisks,
                   vmr, clonedDisks, todo>>

\* client.MigrateNode(vmr, target_node, true)
Update_MigrateNode ==
    /\ pc = "Update_MigrateNode"
    /\ \E ok \in BOOLEAN :
          LET c == Append(calls, Step("MigrateNode", ok))
          IN  IF ok THEN calls' = c /\ ret' = ret /\ pc' = "Update_UpdateConfig"
              ELSE ReturnError(c, "MigrateNode")
    /\ UNCHANGED <<devVars, envVars, createOnly, pdsRet, resId, qemuDisks, remoteDisks,
                   vmr, clonedDisks, todo>>

\* config.UpdateConfig(vmr, client), then the 5 s sleep
Update_UpdateConfig ==
    /\ pc = "Update_UpdateConfig"
    /\ \E ok \in BOOLEAN :
          LET c == Append(calls, Step("UpdateConfig", ok))
          IN  IF ok
              THEN /\ calls' = Append(c, Step("Sleep(5)", TRUE))
                   /\ ret' = ret
                   /\ pc' = "prepareDiskSize"
              ELSE ReturnError(c, "UpdateConfig")
    /\ UNCHANGED <<devVars, envVars, createOnly, pdsRet, resId, qemuDisks, remoteDisks,
                   vmr, clonedDisks, todo>>

\* a variant that starts the VM whatever status is reported
Update_GetVmState_AlwaysStart ==
    /\ pc = "Update_GetVmState"
    /\ \E ok \in BOOLEAN :
          LET c == Append(calls, Step("GetVmState", ok))
          IN  IF ok
              THEN calls' = c /\ ret' = ret /\ pc' = "Update_StartVm"
              ELSE ReturnError(c, "GetVmState")
    /\ UNCHANGED <<devVars, envVars, createOnly, pdsRet, resId, qemuDisks, remoteDisks,
                   vmr, clonedDisks, todo>>

\* client.GetVmState(vmr): a stopped VM is started, an error is returned,
\* anything else returns nil
Update_GetVmState ==
    /\ pc = "Update_GetVmState"
    /\ \E ok \in BOOLEAN :
          LET c == Append(calls, Step("GetVmState", ok))
          IN  IF ok /\ vmStatus = "stopped"
              THEN calls' = c /\ ret' = ret /\ pc' = "Update_StartVm"
              ELSE IF ~ok
              THEN ReturnError(c, "GetVmState")
              ELSE calls' = c /\ ret' = "ok" /\ pc' = "done"
    /\ UNCHANGED <<devVars, envVars, createOnly, pdsRet, resId, qemuDisks, remoteDisks,
                   vmr, clonedDisks, todo>>

\* client.StartVm(vmr); its error is assigned and never read: return nil
Update_StartVm ==
    /\ pc = "Update_StartVm"
    /\ \E ok \in BOOLEAN : calls' = Append(calls, Step("StartVm", ok))
    /\ ret' = "ok"
    /\ pc' = "done"
    /\ UNCHANGED <<devVars, envVars, createOnly, pdsRet, resId, qemuDisks, remoteDisks,
                   vmr, clonedDisks, todo>>

NextUpdate ==
    \/ Update_parseResourceId
    \/ Update_GetVmInfo
    \/ Update_MigrateNode
    \/ Update_UpdateConfig
    \/ prepareDiskSize_NewConfigQemuFromApi
    \/ prepareDiskSize_Disk
    \/ Update_GetVmState
    \/ Update_StartVm

SpecUpdate == InitUpdate /\ [][NextUpdate]_vars

(***************************************************************************)
(* The DiffSuppressFunc of qemu_os                                         *)
(***************************************************************************)
\* strings are sequences of characters
L26 == <<"l", "2", "6">>

Whitespace == {" ", "\t"}

RECURSIVE TrimLeft(_)
TrimLeft(str) ==
    IF str # <<>> /\ Head(str) \in Whitespace THEN TrimLeft(Tail(str)) ELSE str

RECURSIVE TrimRight(_)
TrimRight(str) ==
    IF str # <<>> /\ str[Len(str)] \in Whitespace
    THEN TrimRight(SubSeq(str, 1, Len(str) - 1))
    ELSE str

\* strings.TrimSpace
TrimSpace(str) == TrimRight(TrimLeft(str))

\* a variant that trims the new value before comparing it with "l26"
QemuOsDiffSuppress_TrimFirst(old, new, cloneSet) ==
    IF TrimSpace(new) = L26 THEN cloneSet ELSE TrimSpace(old) = TrimSpace(new)

\* the DiffSuppressFunc of qemu_os; cloneSet: len(d.Get("clone")) > 0
QemuOsDiffSuppress(old, new, cloneSet) ==
    IF new = L26 THEN cloneSet ELSE TrimSpace(old) = TrimSpace(new)

\* runs of at most MaxPad whitespace characters
Pads == UNION {[1 .. n -> Whitespace] : n \in 0 .. MaxPad}

\* values of qemu_os without whitespace around them
OsCores == {<<>>, L26, <<"w", "x", "p">>}

\* the core x with whitespace around it
Padded(x) == {p \o x \o q : p, q \in Pads}

OsStrings == UNION {Padded(x) : x \in OsCores}

InitSuppress ==
    /\ op = "idle"
    /\ d = [disk |-> EmptySet, vga |-> {}]
    /\ d0 = d
    /\ config = [QemuDisks |-> EmptyFn, QemuVga |-> EmptyFn]
    /\ outSet = EmptySet
    /\ outMap = EmptyFn
    /\ pc = "DiffSuppress"
    /\ calls = <<>>
    /\ ret = "none"
    /\ resId = ""
    /\ forceCreate = FALSE
    /\ clone \in BOOLEAN
    /\ iso = FALSE
    /\ qemuDisks = EmptyFn
    /\ remoteDisks = EmptyFn
    /\ dupVmr = "nil"
    /\ vmr = "nil"
    /\ clonedDisks = EmptyFn
    /\ todo = {}
    /\ pdsRet = "none"
    /\ handler = "DiffSuppress"
    /\ idOk = TRUE
    /\ nodeChanged = FALSE
    /\ vmStatus = "stopped"
    /\ osOld \in OsStrings
    /\ osNew \in OsStrings
    /\ osSuppress = "none"

\* Terraform asks whether the difference between old and new is suppressed
DiffSuppress_qemu_os ==
    /\ pc = "DiffSuppress"
    /\ osSuppress' = QemuOsDiffSuppress(osOld, osNew, clone)
    /\ pc' = "done"
    /\ UNCHANGED <<devVars, calls, ret, resId, forceCreate, clone, iso, qemuDisks,
                   remoteDisks, dupVmr, vmr, clonedDisks, todo, pdsRet, handler, idOk,
                   nodeChanged, vmStatus, osOld, osNew>>

NextSuppress == DiffSuppress_qemu_os

SpecSuppress == InitSuppress /\ [][NextSuppress]_vars

(***************************************************************************)
(* prepareDiskSize on its own, over size strings of every unit             *)
(***************************************************************************)
\* size strings in G, M and T
UnitSizes == {<<1, "G">>, <<2, "G">>, <<1500, "M">>, <<1, "T">>}

UnitDiskMaps == PartialMaps(Ids, [i \in Ids |-> UnitSizes])

\* prepareDiskSize(client, vmr, diskConfMap) is entered
InitDisk ==
    /\ op = "idle"
    /\ d = [disk |-> EmptySet, vga |-> {}]
    /\ d0 = d
    /\ config = [QemuDisks |-> EmptyFn, QemuVga |-> EmptyFn]
    /\ outSet = EmptySet
    /\ outMap = EmptyFn
    /\ pc = "prepareDiskSize"
    /\ calls = <<>>
    /\ ret = "none"
    /\ resId = "dup"
    /\ forceCreate = FALSE
    /\ clone = FALSE
    /\ iso = FALSE
    /\ qemuDisks \in UnitDiskMaps
    /\ remoteDisks \in UnitDiskMaps
    /\ dupVmr = "nil"
    /\ vmr = "dup"
    /\ clonedDisks = EmptyFn
    /\ todo = {}
    /\ pdsRet = "none"
    /\ handler = "prepareDiskSize"
    /\ idOk = TRUE
    /\ nodeChanged = FALSE
    /\ vmStatus = "stopped"
    /\ osOld = <<>>
    /\ osNew = <<>>
    /\ osSuppress = "none"

NextDisk ==
    \/ prepareDiskSize_NewConfigQemuFromApi
    \/ prepareDiskSize_Disk

SpecDisk == InitDisk /\ [][NextDisk]_vars

(***************************************************************************)
(* Properties of the device-set reconciliation                             *)
(***************************************************************************)
\* the declared records, by slot id, and the API's device map
Decl == d0.disk.heap

Api == config.QemuDisks

\* every record the API reports for a declared device is the declared
\* record with some of its attributes left out
OmissionOnly ==
    \A i \in DOMAIN Decl \cap DOMAIN Api :
        \A k \in DOMAIN Api[i] : k \in DOMAIN Decl[i] /\ Api[i][k] = Decl[i][k]

\* the records of slot id i in the returned set
Returned(i) == {r \in SetRecords(outSet) : r["id"] = IntV(i)}

\* C1: omission is not drift.  When every API record of a declared device
\* is absent or is the declared record with some attributes removed,
\* flattenDevices and UpdateDevicesSet return a set equal to the declared set.
C1_OmissionIsNotDrift ==
    (op \in {"flattenDevices", "UpdateDevicesSet"} /\ OmissionOnly)
        => /\ outSet = d0.disk
           /\ SetRecords(outSet) = Range(Decl)

C1_Witness ==
    /\ op = "flattenDevices"
    /\ OmissionOnly
    /\ Cardinality(DOMAIN Decl) >= 2
    /\ \E i \in DOMAIN Decl \cap DOMAIN Api :
          /\ "backup" \notin DOMAIN Api[i]
          /\ Decl[i]["backup"] = BoolV(TRUE)
    /\ \E i \in DOMAIN Decl : i \notin DOMAIN Api

\* C2: updateDevicesDefaults(active, declared): every attribute of every
\* declared device is in the result, with the API's value when the API
\* reported it and the declared value otherwise; no reported value is
\* overwritten; records of ids only the API has are returned unchanged.
C2_DefaultsFillOnlyGaps ==
    op = "updateDevicesDefaults"
        => /\ \A i \in DOMAIN Decl : \A k \in DOMAIN Decl[i] :
                 /\ i \in DOMAIN outMap
                 /\ k \in DOMAIN outMap[i]
                 /\ outMap[i][k] = IF i \in DOMAIN Api /\ k \in DOMAIN Api[i]
                                   THEN Api[i][k] ELSE Decl[i][k]
           /\ \A i \in DOMAIN Api : \A k \in DOMAIN Api[i] :
                 i \in DOMAIN outMap /\ k \in DOMAIN outMap[i] /\ outMap[i][k] = Api[i][k]
           /\ \A i \in DOMAIN Api \ DOMAIN Decl :
                 i \in DOMAIN outMap /\ outMap[i] = Api[i]

C2_Witness ==
    /\ op = "updateDevicesDefaults"
    /\ \E i \in DOMAIN Decl \cap DOMAIN Api :
          /\ "mbps" \in DOMAIN Api[i] /\ Api[i]["mbps"] # Decl[i]["mbps"]
          /\ "backup" \notin DOMAIN Api[i]
          /\ outMap[i]["mbps"] = Api[i]["mbps"]
          /\ outMap[i]["backup"] = Decl[i]["backup"]
    /\ \E i \in DOMAIN Api : i \notin DOMAIN Decl /\ outMap[i] = Api[i]

\* the attributes of declared device i that the configuration types as bool
BoolKeys(i) == {k \in DOMAIN Decl[i] : Decl[i][k][1] = "bool"}

\* the API reports attribute k of device i as the value v
Reports(i, k, v) == i \in DOMAIN Api /\ k \in DOMAIN Api[i] /\ Api[i][k] = v

\* in every returned record of device i (there is one), a declared-bool
\* attribute reported as the integer 1 is true and one reported as 0 is false
CoercedIn(i) ==
    /\ Returned(i) # {}
    /\ \A r \in Returned(i) : \A k \in BoolKeys(i) :
          /\ k \in DOMAIN r
          /\ Reports(i, k, IntV(1)) => r[k] = BoolV(TRUE)
          /\ Reports(i, k, IntV(0)) => r[k] = BoolV(FALSE)

\* C3: in UpdateDevicesSet a declared-bool attribute reported by the API as
\* the integer 1 is returned as true, as 0 as false, and whatever the API
\* reports (another integer, another type) the returned attribute is a bool.
C3_UpdateDevicesSetCoercesBool ==
    op = "UpdateDevicesSet"
        => \A i \in DOMAIN Decl :
              /\ CoercedIn(i)
              /\ \A r \in Returned(i) : \A k \in BoolKeys(i) : r[k][1] = "bool"

C3_Witness ==
    /\ op = "UpdateDevicesSet"
    /\ \E i, j \in DOMAIN Decl :
          /\ Decl[i]["backup"] = BoolV(FALSE)
          /\ Reports(i, "backup", IntV(1))
          /\ \E r \in Returned(i) : r["backup"] = BoolV(TRUE)
          /\ Decl[j]["backup"] = BoolV(TRUE)
          /\ Reports(j, "backup", IntV(2)) \/ Reports(j, "backup", StrV(1))
          /\ \E r \in Returned(j) : r["backup"] = BoolV(TRUE)

\* C4: in flattenDevices a declared-bool attribute that the API reports as
\* the integer 0 or 1 is stored in the returned record as false or true.
C4_FlattenDevicesCoercesBool ==
    op = "flattenDevices" => \A i \in DOMAIN Decl : CoercedIn(i)

\* C5: the set UpdateDevicesSet returns has exactly one entry per declared
\* slot id and no entry for another id; it has as many entries as the
\* declared set.
C5_OneEntryPerDeclaredId ==
    op = "UpdateDevicesSet"
        => /\ SetLen(outSet) = SetLen(d0.disk)
           /\ \A i \in DOMAIN Decl :
                 Cardinality({c \in DOMAIN outSet.m :
                                 outSet.heap[outSet.m[c]]["id"] = IntV(i)}) = 1
           /\ \A r \in SetRecords(outSet) : r["id"][2] \in DOMAIN Decl

\* C6: expandDevices / DevicesSetToMap returns a map whose keys are exactly
\* the slot ids of the set's records and whose value at each id is that
\* record, unchanged; the empty set gives the empty map.
C6_ExpandKeysById ==
    op = "expandDevices"
        => /\ DOMAIN outMap = {r["id"][2] : r \in SetRecords(d0.disk)}
           /\ \A r \in SetRecords(d0.disk) : outMap[r["id"][2]] = r
           /\ (SetLen(d0.disk) = 0 => outMap = EmptyFn)

C6_Witness ==
    /\ op = "expandDevices"
    /\ \E r \in SetRecords(d0.disk) : r["id"] = IntV(1)
    /\ \A r \in SetRecords(d0.disk) : r["id"] # IntV(0)
    /\ DOMAIN outMap = {1}

\* C7: when a vga block is declared, flatten (flattenVmQemu and
\* resourceVmQemuRead) writes the display adapter the API reports, with the
\* declared defaults backfilled, into the configuration's vga field.
C7_FlattenWritesVga ==
    (op \in {"flattenVmQemu", "resourceVmQemuRead"} /\ d0.vga # {})
        => d.vga = UpdateDeviceConfDefaults(config.QemuVga, d0.vga)

(***************************************************************************)
(* Properties of resourceVmQemuCreate                                      *)
(***************************************************************************)
\* the names of the steps taken, in order
StepNames == [i \in 1 .. Len(calls) |-> calls[i].step]

Sleeps == {"Sleep(clone_wait)", "Sleep(5)", "Sleep(15)"}

\* the steps that are calls to the Proxmox API (not waits, not d.SetId, not
\* the entry into prepareDiskSize)
IsApiCall(s) == s.step \notin Sleeps \cup {"SetId", "prepareDiskSize"}

IsOrderedStep(n) ==
    n \in Sleeps \cup {"GetVmRefByName(name)", "CloneVm", "CreateVm", "UpdateConfig",
                       "prepareDiskSize", "SetId", "StartVm"}

\* C8: a Create that finds no duplicate, has clone set and succeeds takes,
\* once each and in this order: the duplicate-name lookup, CloneVm,
\* UpdateConfig, the clone_wait sleep, the disk-resize pass, d.SetId, the
\* 15 s sleep, StartVm; StartVm is the last external call.
C8_CloneSequence ==
    (pc = "done" /\ ret = "ok" /\ dupVmr = "nil" /\ clone)
        => /\ SelectSeq(StepNames, IsOrderedStep)
                = <<"GetVmRefByName(name)", "CloneVm", "UpdateConfig", "Sleep(clone_wait)",
                    "prepareDiskSize", "SetId", "Sleep(15)", "StartVm">>
           /\ calls[Len(calls)].step = "StartVm"

C8_Witness ==
    /\ pc = "done"
    /\ ret = "ok"
    /\ dupVmr = "nil"
    /\ clone
    /\ iso
    /\ \E i \in 1 .. Len(calls) : calls[i].step = "ResizeQemuDisk"

\* the steps whose error Create returns
FailSteps == {"nextVmId", "GetVmRefByName(clone)", "CloneVm", "CreateVm", "UpdateConfig",
              "NewConfigQemuFromApi", "ResizeQemuDisk", "StartVm"}

\* C9: Create never retries and never recovers.  When nextVmId, the
\* clone-source lookup, CloneVm, CreateVm, UpdateConfig, prepareDiskSize
\* (its configuration read or a resize) or StartVm fails, Create returns
\* that error and makes no further API call; no API call is made twice.
C9_NoRetryNoRecovery ==
    /\ \A i \in 1 .. Len(calls) :
          (~calls[i].ok /\ calls[i].step \in FailSteps)
              => /\ pc = "done"
                 /\ ret = calls[i].step
                 /\ \A j \in (i + 1) .. Len(calls) : ~IsApiCall(calls[j])
    /\ \A i, j \in 1 .. Len(calls) :
          (i < j /\ IsApiCall(calls[i]) /\ IsApiCall(calls[j]))
              => <<calls[i].step, calls[i].disk>> # <<calls[j].step, calls[j].disk>>

C9_Witness ==
    /\ pc = "done"
    /\ ret = "ResizeQemuDisk"
    /\ \E i, j \in 1 .. Len(calls) :
          /\ i < j
          /\ calls[i].step = "ResizeQemuDisk" /\ calls[i].ok
          /\ calls[j].step = "ResizeQemuDisk" /\ ~calls[j].ok
          /\ j = Len(calls)

\* C10: when the lookup finds a VM of the configured name and force_create
\* is set or the VM is on another node than target_node, Create returns the
\* duplicate-name error without calling StopVm, CloneVm, CreateVm,
\* UpdateConfig, ResizeQemuDisk or StartVm and without setting the id.
C10_DuplicateRejected ==
    (dupVmr # "nil" /\ (forceCreate \/ dupVmr = "other"))
        => /\ pc = "done"
           /\ ret = "Duplicate VM name"
           /\ resId = ""
           /\ \A i \in 1 .. Len(calls) :
                 calls[i].step \notin {"StopVm", "CloneVm", "CreateVm", "UpdateConfig",
                                       "ResizeQemuDisk", "StartVm", "SetId"}

C10_Witness ==
    /\ pc = "done"
    /\ dupVmr = "other"
    /\ ~forceCreate
    /\ ret = "Duplicate VM name"
    /\ Len(calls) = 1

\* the step named n was taken and succeeded
Succeeded(n) == \E i \in 1 .. Len(calls) : calls[i].step = n /\ calls[i].ok

\* the step named n was taken
Called(n) == \E i \in 1 .. Len(calls) : calls[i].step = n

\* Create has returned having found no duplicate, with clone and iso empty
NeitherCloneNorIso == pc = "done" /\ dupVmr = "nil" /\ ~clone /\ ~iso

\* neither CloneVm, CreateVm, UpdateConfig nor StartVm was called and the
\* id is not set
NoVmTouched ==
    /\ resId = ""
    /\ \A i \in 1 .. Len(calls) :
          calls[i].step \notin {"CloneVm", "CreateVm", "UpdateConfig", "StartVm", "SetId"}

\* C11 as stated: when Create finds no duplicate and clone and iso are both
\* empty, it returns "Either clone or iso must be set" without calling
\* CloneVm, CreateVm, UpdateConfig or StartVm and without setting the id.
C11_AsStated ==
    NeitherCloneNorIso => (ret = "Either clone or iso must be set" /\ NoVmTouched)

\* C11: when Create finds no duplicate and clone and iso are both empty, it
\* calls neither CloneVm, CreateVm, UpdateConfig nor StartVm and sets no
\* id; it returns "Either clone or iso must be set" if nextVmId succeeded
\* and nextVmId's error if it failed.
C11_NeitherCloneNorIso ==
    NeitherCloneNorIso
        => /\ NoVmTouched
           /\ ret = IF Succeeded("nextVmId") THEN "Either clone or iso must be set"
                    ELSE "nextVmId"

C11_Witness ==
    /\ NeitherCloneNorIso
    /\ Succeeded("nextVmId")
    /\ ret = "Either clone or iso must be set"

\* C12: when UpdateConfig fails in Create, on the clone path (after a
\* successful CloneVm) or on the recycle path, the id has been set to the
\* VM at hand by the time the error is returned.
C12_IdSetWhenUpdateConfigFails ==
    \A i \in 1 .. Len(calls) :
        (calls[i].step = "UpdateConfig" /\ ~calls[i].ok)
            => /\ pc = "done"
               /\ ret = "UpdateConfig"
               /\ resId = IF dupVmr = "nil" THEN "new" ELSE "dup"
               /\ resId = vmr
               /\ dupVmr = "nil" => Succeeded("CloneVm")

C12_Witness ==
    /\ pc = "done"
    /\ ret = "UpdateConfig"
    /\ Succeeded("CloneVm")
    /\ resId = "new"

(***************************************************************************)
(* Properties of prepareDiskSize                                           *)
(***************************************************************************)
\* the size a size string stands for, in millionths of a GB
SizeGB(size) ==
    IF size[2] = "T" THEN size[1] * 1000000000
    ELSE IF size[2] = "M" THEN size[1] * 1000
    ELSE IF size[2] = "K" THEN size[1]
    ELSE size[1] * 1000000

\* C13: prepareDiskSize only grows disks: ResizeQemuDisk is called for a
\* disk only when its declared size is strictly greater than the size the
\* API reports for the same slot, and then with a positive whole number of
\* GB that is at least the difference; never for a disk declared equal to
\* or smaller than what is reported.
C13_OnlyGrows ==
    \A i \in 1 .. Len(calls) :
        calls[i].step = "ResizeQemuDisk"
            => LET k == calls[i].disk
               IN  /\ k \in DOMAIN qemuDisks \cap DOMAIN remoteDisks
                   /\ SizeGB(qemuDisks[k]) > SizeGB(remoteDisks[k])
                   /\ calls[i].gb > 0
                   /\ calls[i].gb * 1000000 >= SizeGB(qemuDisks[k]) - SizeGB(remoteDisks[k])

\* C14: whenever prepareDiskSize returns without error, every declared
\* disk that exists on the VM and is declared larger than reported has
\* been resized, whatever the order the disks are visited in and whatever
\* the other declared disks are (one absent from the VM included).
C14_EveryDiskResized ==
    pdsRet = "nil"
        => \A k \in DOMAIN qemuDisks \cap DOMAIN remoteDisks :
              SizeGB(qemuDisks[k]) > SizeGB(remoteDisks[k])
                  => \E i \in 1 .. Len(calls) :
                        /\ calls[i].step = "ResizeQemuDisk"
                        /\ calls[i].disk = k
                        /\ calls[i].ok

(***************************************************************************)
(* Properties of resourceVmQemuUpdate                                      *)
(***************************************************************************)
\* the step named n was taken and failed
Failed(n) == \E i \in 1 .. Len(calls) : calls[i].step = n /\ ~calls[i].ok

\* C15: Update starts the VM only if it is not running.  StartVm is called
\* if and only if UpdateConfig succeeded and the GetVmState that follows
\* succeeded and reported "stopped"; when GetVmState fails Update returns
\* that error and StartVm is not called.
C15_StartOnlyIfStopped ==
    pc = "done"
        => /\ Called("StartVm")
                <=> (Succeeded("UpdateConfig") /\ Succeeded("GetVmState")
                        /\ vmStatus = "stopped")
           /\ Failed("GetVmState") => (ret = "GetVmState" /\ ~Called("StartVm"))

C15_Witness ==
    /\ pc = "done"
    /\ Called("StartVm")
    /\ pdsRet = "ResizeQemuDisk"
    /\ ret = "ok"

\* the place of a step in the order GetVmInfo, MigrateNode, UpdateConfig,
\* disk-resize pass, GetVmState
UpdateOrder ==
    <<"GetVmInfo", "MigrateNode", "UpdateConfig", "prepareDiskSize", "GetVmState">>

IsUpdateOrdered(n) == \E k \in 1 .. Len(UpdateOrder) : UpdateOrder[k] = n

Rank(n) == CHOOSE k \in 1 .. Len(UpdateOrder) : UpdateOrder[k] = n

\* the ordered steps that were taken come in their order, each at most once
InUpdateOrder ==
    LET taken == SelectSeq(StepNames, IsUpdateOrdered)
    IN  \A i, j \in 1 .. Len(taken) : i < j => Rank(taken[i]) < Rank(taken[j])

\* what C19 says of failures: a failed id parse, GetVmInfo or MigrateNode
\* is returned and UpdateConfig is never called; after a failed
\* UpdateConfig neither ResizeQemuDisk nor StartVm is called
UpdateFailures ==
    /\ \A n \in {"parseResourceId", "GetVmInfo", "MigrateNode"} :
          Failed(n) => (pc = "done" /\ ret = n /\ ~Called("UpdateConfig"))
    /\ Failed("UpdateConfig") => (~Called("ResizeQemuDisk") /\ ~Called("StartVm"))

\* C19 as stated: the steps of Update are ordered GetVmInfo, MigrateNode,
\* UpdateConfig, disk-resize pass, GetVmState; MigrateNode is called if and
\* only if target_node changed; failures are handled as above.
C19_AsStated ==
    /\ InUpdateOrder
    /\ pc = "done" => (Called("MigrateNode") <=> nodeChanged)
    /\ UpdateFailures

\* C19: the steps of Update are ordered GetVmInfo, MigrateNode,
\* UpdateConfig, disk-resize pass, GetVmState; MigrateNode is called if and
\* only if target_node changed, the id parsed and GetVmInfo succeeded; a
\* failed id parse, GetVmInfo or MigrateNode is returned and UpdateConfig
\* is never called; after a failed UpdateConfig neither ResizeQemuDisk nor
\* StartVm is called.
C19_UpdateOrder ==
    /\ InUpdateOrder
    /\ pc = "done"
          => (Called("MigrateNode")
                <=> (nodeChanged /\ Succeeded("parseResourceId") /\ Succeeded("GetVmInfo")))
    /\ UpdateFailures

C19_Witness ==
    /\ pc = "done"
    /\ nodeChanged
    /\ Succeeded("MigrateNode")
    /\ Called("ResizeQemuDisk")
    /\ Succeeded("GetVmState")

(***************************************************************************)
(* Properties of the DiffSuppressFunc of qemu_os                           *)
(***************************************************************************)
\* a and b are the same core with whitespace around it
EqualAfterTrim(a, b) == \E x \in OsCores : a \in Padded(x) /\ b \in Padded(x)

\* C16: a configured (new) qemu_os of exactly "l26" is suppressed if and
\* only if clone is non-empty, whatever the old value; for any other new
\* value the difference is suppressed if and only if old and new are equal
\* after trimming surrounding whitespace.
C16_QemuOsSuppression ==
    pc = "done"
        => IF osNew = L26
           THEN osSuppress <=> clone
           ELSE osSuppress <=> EqualAfterTrim(osOld, osNew)

C16_Witness ==
    /\ pc = "done"
    /\ osNew = <<" ">> \o L26
    /\ osOld = <<"w", "x", "p">>
    /\ clone
    /\ osSuppress = FALSE

(***************************************************************************)
(* Properties of resourceVmQemuCreate: the paths                           *)
(***************************************************************************)
\* how many times the step named n was taken
Count(n) == Cardinality({i \in 1 .. Len(calls) : calls[i].step = n})

\* at most one of CloneVm and CreateVm is called, and none when the lookup
\* found a VM
AtMostOneCreation ==
    /\ Count("CloneVm") + Count("CreateVm") <= 1
    /\ dupVmr # "nil" => Count("CloneVm") + Count("CreateVm") = 0

\* after CreateVm neither UpdateConfig nor the disk-resize pass runs
IsoPathIsBare ==
    Called("CreateVm")
        => /\ ~Called("UpdateConfig")
           /\ ~Called("prepareDiskSize")
           /\ ~Called("ResizeQemuDisk")

\* C17 as stated: at most one of CloneVm and CreateVm is called, and only
\* when the lookup found no VM; CloneVm is called if and only if clone is
\* non-empty, CreateVm if and only if clone is empty and iso is non-empty;
\* on the iso path neither UpdateConfig nor the resize pass runs.
C17_AsStated ==
    /\ AtMostOneCreation
    /\ (pc = "done" /\ dupVmr = "nil")
          => /\ Called("CloneVm") <=> clone
             /\ Called("CreateVm") <=> (~clone /\ iso)
    /\ IsoPathIsBare

\* C17: at most one of CloneVm and CreateVm is called, and only when the
\* lookup found no VM; then CloneVm is called if and only if clone is
\* non-empty and nextVmId and the clone-source lookup succeeded, CreateVm
\* if and only if clone is empty, iso is non-empty and nextVmId succeeded;
\* on the iso path neither UpdateConfig nor the resize pass runs.
C17_CloneOrIso ==
    /\ AtMostOneCreation
    /\ (pc = "done" /\ dupVmr = "nil")
          => /\ Called("CloneVm")
                  <=> (clone /\ Succeeded("nextVmId") /\ Succeeded("GetVmRefByName(clone)"))
             /\ Called("CreateVm") <=> (~clone /\ iso /\ Succeeded("nextVmId"))
    /\ IsoPathIsBare

C17_Witness ==
    /\ pc = "done"
    /\ clone
    /\ iso
    /\ Succeeded("CloneVm")
    /\ ~Called("CreateVm")
    /\ ret = "ok"

\* Create has returned having found the VM on target_node, without force_create
Recycled == pc = "done" /\ dupVmr = "same" /\ ~forceCreate

IsRecycleStep(n) ==
    n \in Sleeps \cup {"nextVmId", "CloneVm", "CreateVm", "StopVm", "UpdateConfig",
                       "prepareDiskSize", "SetId", "StartVm"}

RecycleSequence ==
    <<"StopVm", "UpdateConfig", "Sleep(5)", "prepareDiskSize", "SetId", "Sleep(15)",
      "StartVm">>

\* C18 as stated: recycling calls neither nextVmId, CloneVm nor CreateVm,
\* and calls in order StopVm (failure ignored), UpdateConfig, the 5 s wait,
\* the disk-resize pass, sets the id to the existing VM, waits 15 s, then
\* StartVm.
C18_AsStated ==
    Recycled
        => /\ SelectSeq(StepNames, IsRecycleStep) = RecycleSequence
           /\ resId = "dup"

\* C18: recycling calls neither nextVmId, CloneVm nor CreateVm; it calls
\* StopVm and, whatever StopVm returned, UpdateConfig; when UpdateConfig
\* and the disk-resize pass succeed it goes on in order with the 5 s wait,
\* the disk-resize pass, sets the id to the existing VM, waits 15 s, then
\* StartVm; otherwise it stops at the failed step (after a failed
\* UpdateConfig it still sets the id).
C18_Recycle ==
    Recycled
        => LET taken == SelectSeq(StepNames, IsRecycleStep)
           IN  /\ ~Called("nextVmId") /\ ~Called("CloneVm") /\ ~Called("CreateVm")
               /\ Len(taken) >= 2
               /\ SubSeq(taken, 1, 2) = <<"StopVm", "UpdateConfig">>
               /\ (Succeeded("UpdateConfig") /\ pdsRet = "nil")
                     => (taken = RecycleSequence /\ resId = "dup")
               /\ Failed("UpdateConfig")
                     => (taken = <<"StopVm", "UpdateConfig", "SetId">> /\ resId = "dup")
               /\ (Succeeded("UpdateConfig") /\ pdsRet # "nil")
                     => taken = SubSeq(RecycleSequence, 1, 4)

C18_Witness ==
    /\ Recycled
    /\ Failed("StopVm")
    /\ Succeeded("ResizeQemuDisk")
    /\ resId = "dup"
    /\ ret = "ok"

\* C20: no orphaned VM.  Whenever CloneVm or CreateVm succeeded, the id is
\* set to that VM when Create returns, be it with success or with the
\* error of a later step (UpdateConfig, the disk-resize pass, StartVm).
C20_NoOrphanedVm ==
    (pc = "done" /\ (Succeeded("CloneVm") \/ Succeeded("CreateVm"))) => resId = "new"

====
